---- MODULE Spec2Model ----
(***************************************************************************)
(* The trades table of bitcoin_trades.db, the manual deposit / withdrawal  *)
(* tools that append rows to it, and the dashboard's analysis pipeline     *)
(* (load_data, detect_cash_flows, calculate_trading_amounts,               *)
(* calculate_performance of streamlit_app.py) that folds the table into a  *)
(* ledger.                                                                 *)
(*                                                                         *)
(* Units.  btc_balance is counted in units of 0.000001 BTC, so that the    *)
(* two literals 0.00001 and 0.000001 of the pipeline are the integers 10   *)
(* and 1; btc_krw_price and btc_avg_buy_price are KRW per such unit;       *)
(* krw_balance and every amount are KRW.  trading_fee and cumulative_fees  *)
(* are counted in units of 1/FeeRateDen KRW (amount * 0.0005 is            *)
(* amount * FeeRateNum of these units).  return_rate and realized_profit   *)
(* are quotients in the code and exact fractions [n, d] in lowest terms    *)
(* here; realized_profit, which takes half of the fees, is counted in      *)
(* units of 1/(2 * FeeRateDen) KRW.                                        *)
(***************************************************************************)
EXTENDS Integers, Sequences, FiniteSets, TLC

VARIABLES
    store,      \* the trades table: rows in insertion (rowid) order
    nextId,     \* the id the next inserted row gets
    clock,      \* wall clock, in seconds
    analysed,   \* the table content the last analysis run has read
    ledger,     \* the data frame the last analysis run has produced
    running,    \* an analysis run has read the table and not yet finished
    flight,     \* the manual deposits in progress, one per operator
    cli,        \* the cli_db_manager command in progress and what it returned
    bot         \* the trading bot's cycle: clients, decision, orders placed

vars == <<store, nextId, clock, analysed, ledger, running, flight, cli, bot>>

----------------------------------------------------------------------------
(* Bounds of the model *)

MaxRows == 3

(* Program constants *)

FeeRateNum == 5
FeeRateDen == 10000
DetectEps == 10
TradeEps == 1
CashThreshold == 1000

----------------------------------------------------------------------------
(* Input domains *)

\* The cash-flow feed: the account's balances vary, the market is still.
\* The market feed: the holding, the price and the reported average cost
\* vary, the cash is still.  The pipeline reads the table as it is and never
\* looks at the sign of a price, so the prices include 0 and a negative one.
BtcValues == {0, 5, 20}
KrwValues == {0, 1000, 3000}
PriceValues == {-1, 0, 2, 3}
AvgValues == {0, 2}
StillPrices == {2}
StillAvgs == {2}
StillKrw == {3000}
\* The exchange reports a positive average cost for a position it holds, and
\* that cost or 0 once the position is flat.
MarketObservations ==
    {o \in [btc : BtcValues, price : PriceValues, avg : AvgValues] :
        o.btc > 0 => o.avg > 0}
Amounts == {2000}
\* The ledger feed: the holding and the cash vary; the exchange reports an
\* average cost for a position it holds and none for a flat account.
FlowObservations ==
    {o \in [btc : {0, 5}, krw : KrwValues, avg : AvgValues] : o.btc > 0 <=> o.avg > 0}
SmallAmounts == {500}
\* The feed the manual tools work on.
ToolKrw == {1000, 3000}
ToolBtc == {5}

\* Reasons.  "sudong chuga" stands for the tools' default description (the
\* Korean for "added by hand"), which TLA+ strings cannot hold.
AiReason == "ai: momentum"
DepositReason == "Manual deposit: sudong chuga"
WithdrawReason == "Manual withdraw: sudong chuga"
\* cli_db_manager's default descriptions
CliDepositReason == "Manual deposit: Manual deposit"
CliWithdrawalReason == "Manual withdrawal: Manual withdrawal"
\* the default descriptions of the dashboard's forms ("restoring a missed
\* deposit", "withdrawal added by hand")
FormDepositReason == "Manual deposit: nurakdoen ipgeum bokgu"
FormWithdrawReason == "Manual withdraw: sudong chuga chulgeum"

NoDate == "none"
EarlyDate == "2000-01-01 00:00:00"
GarbageDate == "garbage"
DateStrs == {NoDate, EarlyDate, GarbageDate}
\* the dashboard builds its text from a date and a time picker
FormDates == {NoDate, EarlyDate}

----------------------------------------------------------------------------
(* Timestamps.  The table holds timestamps as text.  A text written by     *)
(* strftime('%Y-%m-%d %H:%M:%S') is [kind |-> "sec", t |-> the second];    *)
(* a text written by isoformat() ('T' between date and time) is            *)
(* [kind |-> "iso", t |-> the second]; a text that is no date is           *)
(* [kind |-> "bad", t |-> 0].  The clock of the model stays within one     *)
(* day; EarlyDate is a day long before it.                                 *)

StampNow(t) == [kind |-> "sec", t |-> t]

\* datetime.now().isoformat()
StampIso(t) == [kind |-> "iso", t |-> t]

StampOf(date_str, t) ==
    IF date_str = NoDate THEN StampNow(t)
    ELSE IF date_str = EarlyDate THEN [kind |-> "sec", t |-> 0]
    ELSE [kind |-> "bad", t |-> 0]

\* SQLite's text comparison: digits sort before letters, and texts of one
\* format sort as their instants do.  Two texts of the same day in different
\* formats differ first at the character after the date, where the blank of
\* strftime sorts before the 'T' of isoformat; a text of an earlier day sorts
\* before both.
TextLess(a, b) ==
    \/ a.kind \in {"sec", "iso"} /\ b.kind = "bad"
    \/ a.kind = "sec" /\ b.kind = "iso"
    \/ a.kind = b.kind /\ a.t < b.t

\* ORDER BY timestamp ASC over the table, rows of equal text in rowid order.
RECURSIVE OrderByTimestamp(_)
OrderByTimestamp(rows) ==
    IF rows = <<>> THEN <<>>
    ELSE LET n == Len(rows)
             r == rows[n]
             head == OrderByTimestamp(SubSeq(rows, 1, n - 1))
             before == SelectSeq(head, LAMBDA x : ~TextLess(r.timestamp, x.timestamp))
             after == SelectSeq(head, LAMBDA x : TextLess(r.timestamp, x.timestamp))
         IN  before \o <<r>> \o after

\* ORDER BY timestamp DESC LIMIT 1
LatestTrade(rows) ==
    LET df == OrderByTimestamp(rows) IN df[Len(df)]

\* pd.to_datetime(..., format='mixed', errors='coerce') and the replacement
\* of the rows it could not parse by pd.Timestamp.now().  With errors='coerce'
\* a text that is no date becomes NaT and nothing is raised, so the except
\* branch of load_data is not taken.
to_datetime(stamp, now) ==
    IF stamp.kind = "bad" THEN [at |-> "now", t |-> now]
    ELSE [at |-> "parsed", t |-> stamp.t]

load_data(rows, now) ==
    LET df == OrderByTimestamp(rows)
    IN  [i \in 1..Len(df) |->
            [df[i] EXCEPT !.timestamp = to_datetime(df[i].timestamp, now)]]

----------------------------------------------------------------------------
(* detect_cash_flows *)

Abs(x) == IF x < 0 THEN -x ELSE x

\* str(reason).lower()
Lower(reason) ==
    CASE reason = DepositReason -> "manual deposit: sudong chuga"
      [] reason = WithdrawReason -> "manual withdraw: sudong chuga"
      [] reason = CliDepositReason -> "manual deposit: manual deposit"
      [] reason = CliWithdrawalReason -> "manual withdrawal: manual withdrawal"
      [] reason = FormDepositReason -> "manual deposit: nurakdoen ipgeum bokgu"
      [] reason = FormWithdrawReason -> "manual withdraw: sudong chuga chulgeum"
      [] OTHER -> reason

\* 'manual deposit' in text, 'manual withdraw' in text
ContainsManualDeposit(text) ==
    text \in {"manual deposit: sudong chuga", "manual deposit: manual deposit",
              "manual deposit: nurakdoen ipgeum bokgu"}
ContainsManualWithdraw(text) ==
    text \in {"manual withdraw: sudong chuga", "manual withdrawal: manual withdrawal",
              "manual withdraw: sudong chuga chulgeum"}

\* the same test on the reason as stored, without lower()
HasDepositMarkerCased(reason) == ContainsManualDeposit(reason)

\* 'manual deposit' in current_reason
HasDepositMarker(reason) == ContainsManualDeposit(Lower(reason))

\* 'manual withdraw' in current_reason
HasWithdrawMarker(reason) == ContainsManualWithdraw(Lower(reason))

\* re.search(r'(\d{1,3}(?:,\d{3})*)', reason): the first number of the
\* reason, -1 when it has none (no reason of the model has a digit)
FirstNumber(reason) == -1

\* the same test with a cash change of exactly the threshold let through
IsCashFlowLoose(btc_change, krw_change) ==
    btc_change < DetectEps /\ Abs(krw_change) >= CashThreshold

\* the balance of the asset did not move and the cash did
IsCashFlow(btc_change, krw_change) ==
    btc_change < DetectEps /\ Abs(krw_change) > CashThreshold

DetectRow(df, i) ==
    LET row == df[i]
        flat == [cash_flow_type |-> "trade", deposit_amount |-> 0, withdraw_amount |-> 0]
    IN
    IF HasDepositMarker(row.reason) THEN
        [flat EXCEPT !.cash_flow_type = "deposit",
                     !.deposit_amount =
                        IF i > 1
                        THEN (IF row.krw_balance - df[i-1].krw_balance > 0
                              THEN row.krw_balance - df[i-1].krw_balance ELSE 0)
                        ELSE (IF FirstNumber(row.reason) >= 0
                              THEN FirstNumber(row.reason) ELSE 0)]
    ELSE IF HasWithdrawMarker(row.reason) THEN
        [flat EXCEPT !.cash_flow_type = "withdraw",
                     !.withdraw_amount =
                        IF i > 1 /\ df[i-1].krw_balance - row.krw_balance > 0
                        THEN df[i-1].krw_balance - row.krw_balance ELSE 0]
    ELSE IF i > 1 THEN
        LET btc_change == Abs(row.btc_balance - df[i-1].btc_balance)
            krw_change == row.krw_balance - df[i-1].krw_balance
        IN  IF IsCashFlow(btc_change, krw_change)
            THEN IF krw_change > 0
                 THEN [flat EXCEPT !.cash_flow_type = "deposit",
                                   !.deposit_amount = krw_change]
                 ELSE [flat EXCEPT !.cash_flow_type = "withdraw",
                                   !.withdraw_amount = Abs(krw_change)]
            ELSE flat
    ELSE flat

detect_cash_flows(df) ==
    [i \in 1..Len(df) |->
        LET d == DetectRow(df, i)
        IN  [id |-> df[i].id, timestamp |-> df[i].timestamp, reason |-> df[i].reason,
             btc_balance |-> df[i].btc_balance, krw_balance |-> df[i].krw_balance,
             btc_avg_buy_price |-> df[i].btc_avg_buy_price,
             btc_krw_price |-> df[i].btc_krw_price,
             cash_flow_type |-> d.cash_flow_type,
             deposit_amount |-> d.deposit_amount,
             withdraw_amount |-> d.withdraw_amount]]

----------------------------------------------------------------------------
(* calculate_trading_amounts *)

\* the price of the row before
TradePricePrev(df, i) == df[i-1].btc_krw_price

\* the price a change of the holding is valued at
TradePrice(df, i) == df[i].btc_krw_price

\* the amount the holding of the first row is booked at
OpeningAmount(row) == row.btc_balance * row.btc_krw_price

TradeRow(df, i) ==
    LET row == df[i]
        none == [buy_amount |-> 0, sell_amount |-> 0, trading_fee |-> 0]
    IN
    IF row.cash_flow_type # "trade" THEN none
    ELSE IF i = 1 THEN
        IF row.btc_balance > 0
        THEN LET amount == OpeningAmount(row)
             IN  [none EXCEPT !.buy_amount = amount,
                              !.trading_fee = amount * FeeRateNum]
        ELSE none
    ELSE
        LET btc_diff == row.btc_balance - df[i-1].btc_balance
        IN  IF btc_diff > TradeEps
            THEN LET amount == btc_diff * TradePrice(df, i)
                 IN  [none EXCEPT !.buy_amount = amount,
                                  !.trading_fee = amount * FeeRateNum]
            ELSE IF btc_diff < -TradeEps
            THEN LET amount == Abs(btc_diff) * TradePrice(df, i)
                 IN  [none EXCEPT !.sell_amount = amount,
                                  !.trading_fee = amount * FeeRateNum]
            ELSE none

calculate_trading_amounts(df) ==
    [i \in 1..Len(df) |->
        LET t == TradeRow(df, i)
        IN  [id |-> df[i].id, timestamp |-> df[i].timestamp, reason |-> df[i].reason,
             btc_balance |-> df[i].btc_balance, krw_balance |-> df[i].krw_balance,
             btc_avg_buy_price |-> df[i].btc_avg_buy_price,
             btc_krw_price |-> df[i].btc_krw_price,
             cash_flow_type |-> df[i].cash_flow_type,
             deposit_amount |-> df[i].deposit_amount,
             withdraw_amount |-> df[i].withdraw_amount,
             buy_amount |-> t.buy_amount,
             sell_amount |-> t.sell_amount,
             trading_fee |-> t.trading_fee]]

----------------------------------------------------------------------------
(* calculate_performance *)

\* the sum of the rows before row i, row i left out
RECURSIVE cumsumBefore(_, _, _)
cumsumBefore(df, column, i) ==
    IF i <= 1 THEN 0 ELSE cumsumBefore(df, column, i - 1) + df[i-1][column]

\* df[column].cumsum() at row i
RECURSIVE cumsum(_, _, _)
cumsum(df, column, i) ==
    IF i = 0 THEN 0 ELSE cumsum(df, column, i - 1) + df[i][column]

\* The quotient n / d of two floats (d > 0), in lowest terms.
RECURSIVE GCD(_, _)
GCD(a, b) == IF b = 0 THEN a ELSE GCD(b, a % b)
Rat(n, d) == LET g == GCD(Abs(n), d) IN [n |-> n \div g, d |-> d \div g]
RatEq(a, b) == a.n * b.d = b.n * a.d
RatSub(a, b) == Rat(a.n * b.d - b.n * a.d, a.d * b.d)

\* realized_profit of the row: sell_total - cost - fees_total * 0.5, where
\* cost = (sell_total / price if price > 0 else 0) * btc_avg_buy_price
RealizedProfit(sell_total, fees_total, avg, price) ==
    IF sell_total > 0 /\ avg > 0
    THEN IF price > 0
         THEN Rat(2 * FeeRateDen * (sell_total * price - sell_total * avg)
                    - fees_total * price,
                  price)
         ELSE Rat(2 * FeeRateDen * sell_total - fees_total, 1)
    ELSE Rat(0, 1)

\* the same quotient taken whenever investment is not 0
ReturnRateNonZero(performance, investment) ==
    IF investment > 0 THEN Rat(performance * 100, investment)
    ELSE IF investment < 0 THEN Rat(-(performance * 100), -investment)
    ELSE Rat(0, 1)

\* return_rate: (performance / investment) * 100 if investment > 0 else 0
ReturnRate(performance, investment) ==
    IF investment > 0 THEN Rat(performance * 100, investment) ELSE Rat(0, 1)

PerformanceRow(df, i) ==
    LET row == df[i]
        cumulative_deposits == cumsum(df, "deposit_amount", i)
        cumulative_withdraws == cumsum(df, "withdraw_amount", i)
        cumulative_buy == cumsum(df, "buy_amount", i)
        cumulative_sell == cumsum(df, "sell_amount", i)
        cumulative_fees == cumsum(df, "trading_fee", i)
        total_asset == row.btc_balance * row.btc_krw_price + row.krw_balance
        investment == cumulative_deposits - cumulative_withdraws
        performance == total_asset - investment
    IN  [id |-> row.id, timestamp |-> row.timestamp, reason |-> row.reason,
         btc_balance |-> row.btc_balance, krw_balance |-> row.krw_balance,
         btc_avg_buy_price |-> row.btc_avg_buy_price,
         btc_krw_price |-> row.btc_krw_price,
         cash_flow_type |-> row.cash_flow_type,
         deposit_amount |-> row.deposit_amount,
         withdraw_amount |-> row.withdraw_amount,
         buy_amount |-> row.buy_amount,
         sell_amount |-> row.sell_amount,
         trading_fee |-> row.trading_fee,
         cumulative_deposits |-> cumulative_deposits,
         cumulative_withdraws |-> cumulative_withdraws,
         cumulative_buy |-> cumulative_buy,
         cumulative_sell |-> cumulative_sell,
         cumulative_fees |-> cumulative_fees,
         total_asset |-> total_asset,
         investment |-> investment,
         performance |-> performance,
         return_rate |-> ReturnRate(performance, investment),
         realized_profit |-> RealizedProfit(cumulative_sell, cumulative_fees,
                                            row.btc_avg_buy_price, row.btc_krw_price)]

calculate_performance(df) == [i \in 1..Len(df) |-> PerformanceRow(df, i)]

\* main(): the pipeline over the loaded table
Analyse(rows, now) ==
    calculate_performance(calculate_trading_amounts(detect_cash_flows(load_data(rows, now))))

----------------------------------------------------------------------------
(* Operations *)

\* The operators at the manual deposit tool, and a process that is not
\* running.
Operators == {"a", "b"}
Idle == [pc |-> "idle"]
NoCommand == [op |-> "none"]

Init ==
    /\ store = <<>>
    /\ nextId = 1
    /\ clock = 1
    /\ analysed = <<>>
    /\ ledger = <<>>
    /\ running = FALSE
    /\ flight = [p \in Operators |-> Idle]
    /\ cli = NoCommand
    /\ bot = Idle

\* an UPDATE of the latest row in place of the INSERT
UpdateLatest(rows, row) == SubSeq(rows, 1, Len(rows) - 1) \o <<row>>

\* INSERT INTO trades: the row is added under a new id, the rows of the
\* table stay
Insert(rows, row) == Append(rows, row)

\* The trading loop records the account as the exchange reports it.
RecordSnapshot(btc, krw, avg, price) ==
    /\ nextId <= MaxRows
    /\ store' = Insert(store,
                    [id |-> nextId, timestamp |-> StampNow(clock), reason |-> AiReason,
                     btc_balance |-> btc, krw_balance |-> krw,
                     btc_avg_buy_price |-> avg, btc_krw_price |-> price,
                     transaction_type |-> "trade"])
    /\ nextId' = nextId + 1
    /\ clock' = clock + 1
    /\ UNCHANGED <<analysed, ledger, running, flight, cli, bot>>

\* manual_deposit_manager.add_manual_deposit(amount, date_str)
add_manual_deposit(amount, date_str) ==
    /\ nextId <= MaxRows
    /\ store # <<>>
    /\ LET latest_trade == LatestTrade(store)
       IN  store' = Insert(store,
                    [latest_trade EXCEPT !.id = nextId,
                                         !.timestamp = StampOf(date_str, clock),
                                         !.reason = DepositReason,
                                         !.krw_balance = latest_trade.krw_balance + amount])
    /\ nextId' = nextId + 1
    /\ clock' = clock + 1
    /\ UNCHANGED <<analysed, ledger, running, flight, cli, bot>>

\* manual_deposit_manager.add_manual_withdraw(amount, date_str); confirm is
\* the operator's answer when the balance does not cover the amount
add_manual_withdraw(amount, date_str, confirm) ==
    /\ nextId <= MaxRows
    /\ store # <<>>
    /\ LET latest_trade == LatestTrade(store)
       IN  /\ latest_trade.krw_balance < amount => confirm
           /\ store' = Insert(store,
                    [latest_trade EXCEPT !.id = nextId,
                                         !.timestamp = StampOf(date_str, clock),
                                         !.reason = WithdrawReason,
                                         !.krw_balance = latest_trade.krw_balance - amount])
    /\ nextId' = nextId + 1
    /\ clock' = clock + 1
    /\ UNCHANGED <<analysed, ledger, running, flight, cli, bot>>

\* The result of a cli_db_manager command.
Returned(op, arg, result) == [op |-> op, arg |-> arg, result |-> result]

\* cli_db_manager.CLIDBManager.add_deposit(amount): False on an empty table
add_deposit(amount) ==
    /\ cli = NoCommand
    /\ IF store = <<>>
       THEN /\ cli' = Returned("add_deposit", amount, FALSE)
            /\ UNCHANGED <<store, nextId, clock>>
       ELSE /\ nextId <= MaxRows
            /\ LET latest == LatestTrade(store)
               IN  store' = Insert(store,
                    [id |-> nextId, timestamp |-> StampIso(clock),
                     reason |-> CliDepositReason,
                     btc_balance |-> latest.btc_balance,
                     krw_balance |-> latest.krw_balance + amount,
                     btc_avg_buy_price |-> latest.btc_avg_buy_price,
                     btc_krw_price |-> latest.btc_krw_price,
                     transaction_type |-> "deposit"])
            /\ nextId' = nextId + 1
            /\ clock' = clock + 1
            /\ cli' = Returned("add_deposit", amount, TRUE)
    /\ UNCHANGED <<analysed, ledger, running, flight, bot>>

\* the same test with a withdrawal of the whole balance refused
InsufficientOrAll(krw_balance, amount) == krw_balance <= amount

\* latest[1] < amount
Insufficient(krw_balance, amount) == krw_balance < amount

\* cli_db_manager.CLIDBManager.add_withdrawal(amount): False on an empty
\* table and when the latest row's cash does not cover the amount
add_withdrawal(amount) ==
    /\ cli = NoCommand
    /\ IF store = <<>> \/ Insufficient(LatestTrade(store).krw_balance, amount)
       THEN /\ cli' = Returned("add_withdrawal", amount, FALSE)
            /\ UNCHANGED <<store, nextId, clock>>
       ELSE /\ nextId <= MaxRows
            /\ LET latest == LatestTrade(store)
               IN  store' = Insert(store,
                    [id |-> nextId, timestamp |-> StampIso(clock),
                     reason |-> CliWithdrawalReason,
                     btc_balance |-> latest.btc_balance,
                     krw_balance |-> latest.krw_balance - amount,
                     btc_avg_buy_price |-> latest.btc_avg_buy_price,
                     btc_krw_price |-> latest.btc_krw_price,
                     transaction_type |-> "withdrawal"])
            /\ nextId' = nextId + 1
            /\ clock' = clock + 1
            /\ cli' = Returned("add_withdrawal", amount, TRUE)
    /\ UNCHANGED <<analysed, ledger, running, flight, bot>>

\* cli_db_manager.CLIDBManager.delete_trade(trade_id, force); confirm is the
\* operator's answer to the question asked without force
delete_trade(trade_id, force, confirm) ==
    /\ cli = NoCommand
    /\ IF (\E k \in 1..Len(store) : store[k].id = trade_id) /\ (force \/ confirm)
       THEN /\ store' = SelectSeq(store, LAMBDA row : row.id # trade_id)
            /\ cli' = Returned("delete_trade", trade_id, TRUE)
       ELSE /\ cli' = Returned("delete_trade", trade_id, FALSE)
            /\ UNCHANGED store
    /\ UNCHANGED <<nextId, clock, analysed, ledger, running, flight, bot>>

valid_types == {"trade", "deposit", "withdrawal", "fee", "other"}

\* cli_db_manager.CLIDBManager.update_type(trade_id, new_type)
update_type(trade_id, new_type) ==
    /\ cli = NoCommand
    /\ IF new_type \in valid_types /\ (\E k \in 1..Len(store) : store[k].id = trade_id)
       THEN /\ store' = [k \in 1..Len(store) |->
                            IF store[k].id = trade_id
                            THEN [store[k] EXCEPT !.transaction_type = new_type]
                            ELSE store[k]]
            /\ cli' = Returned("update_type", trade_id, TRUE)
       ELSE /\ cli' = Returned("update_type", trade_id, FALSE)
            /\ UNCHANGED store
    /\ UNCHANGED <<nextId, clock, analysed, ledger, running, flight, bot>>

\* cli_db_manager.main: the command has run and the process ends
CliExit ==
    /\ cli # NoCommand
    /\ cli' = NoCommand
    /\ UNCHANGED <<store, nextId, clock, analysed, ledger, running, flight, bot>>

\* reason LIKE '%sudong%' ("manual", in the descriptions of the tools)
LikeSudong(reason) == reason \in {DepositReason, WithdrawReason, FormWithdrawReason}

\* reason LIKE '%Manual deposit%' OR reason LIKE '%sudong%'; LIKE does not
\* tell the case of ASCII letters
IsManualRecord(reason) == ContainsManualDeposit(Lower(reason)) \/ LikeSudong(reason)

\* delete_manual_deposit.delete_manual_deposit_records(): the script answers
\* its own question with "y"
delete_manual_deposit_records ==
    /\ \E k \in 1..Len(store) : IsManualRecord(store[k].reason)
    /\ store' = SelectSeq(store, LAMBDA row : ~IsManualRecord(row.reason))
    /\ UNCHANGED <<nextId, clock, analysed, ledger, running, flight, cli, bot>>

\* The dashboard's deposit form (main, tab1), on a press of its button
DepositForm(deposit_amount, deposit_datetime) ==
    /\ nextId <= MaxRows
    /\ store # <<>>
    /\ LET latest_trade == LatestTrade(store)
       IN  store' = Insert(store,
                    [latest_trade EXCEPT !.id = nextId,
                                         !.timestamp = StampOf(deposit_datetime, clock),
                                         !.reason = FormDepositReason,
                                         !.krw_balance = latest_trade.krw_balance + deposit_amount])
    /\ nextId' = nextId + 1
    /\ clock' = clock + 1
    /\ UNCHANGED <<analysed, ledger, running, flight, cli, bot>>

\* The dashboard's withdrawal form (main, tab2), on a press of its button.
\* When the cash does not cover the amount the run draws the "force"
\* checkbox, which is unticked on its first drawing, and stops; ticking it
\* starts a run in which the button is no longer pressed.
WithdrawForm(withdraw_amount, withdraw_datetime) ==
    /\ nextId <= MaxRows
    /\ store # <<>>
    /\ LET latest_trade == LatestTrade(store)
       IN  /\ ~(latest_trade.krw_balance < withdraw_amount)
           /\ store' = Insert(store,
                    [latest_trade EXCEPT !.id = nextId,
                                         !.timestamp = StampOf(withdraw_datetime, clock),
                                         !.reason = FormWithdrawReason,
                                         !.krw_balance = latest_trade.krw_balance - withdraw_amount])
    /\ nextId' = nextId + 1
    /\ clock' = clock + 1
    /\ UNCHANGED <<analysed, ledger, running, flight, cli, bot>>

\* One rendering of the dashboard: main() loads the table and runs the
\* pipeline; now is what pd.Timestamp.now() returns during the run, an
\* instant of the current second or of a later one.
RunAnalysis ==
    \E now \in {clock, clock + 1} :
        /\ analysed' = store
        /\ ledger' = IF store = <<>> THEN <<>> ELSE Analyse(store, now)
        /\ UNCHANGED <<store, nextId, clock, running, flight, cli, bot>>

\* manual_deposit_manager.add_manual_deposit(amount) of operator p, up to
\* its SELECT: the timestamp is taken and the latest row is read
BeginDeposit(p, amount) ==
    /\ flight[p] = Idle
    /\ store # <<>>
    /\ flight' = [flight EXCEPT ![p] = [pc |-> "read", amount |-> amount,
                                         timestamp |-> StampNow(clock),
                                         latest_trade |-> LatestTrade(store)]]
    /\ clock' = clock + 1
    /\ UNCHANGED <<store, nextId, analysed, ledger, running, cli, bot>>

\* add_manual_deposit of operator p, from its INSERT to its commit
InsertDeposit(p) ==
    /\ flight[p].pc = "read"
    /\ nextId <= MaxRows
    /\ LET latest_trade == flight[p].latest_trade
       IN  store' = Insert(store,
                    [latest_trade EXCEPT !.id = nextId,
                                         !.timestamp = flight[p].timestamp,
                                         !.reason = DepositReason,
                                         !.krw_balance = latest_trade.krw_balance
                                                            + flight[p].amount])
    /\ nextId' = nextId + 1
    /\ flight' = [flight EXCEPT ![p] = [pc |-> "done", amount |-> flight[p].amount]]
    /\ UNCHANGED <<clock, analysed, ledger, running, cli, bot>>

\* The trading bot (autotrade.BitcoinTradingBot).  Cash is in KRW, the
\* holding in BTC, the price in KRW per BTC; confidence_level is in percent.
MinOrder == 5000
NetOfFeeNum == 9995
NetOfFeeDen == 10000
LlmOutcomes == {"raises", "unparsable", "buy", "sell", "hold", "wait"}
BotKrw == {0, 5002, 5003}
BotBtc == {0, 1}
AskPrices == {5000, 5001}

\* __init__ and the start of run_trading_cycle: the clients are there when
\* their keys are configured
StartCycle(upbit, openai_client) ==
    /\ bot.pc \in {"idle", "done"}
    /\ bot' = [pc |-> "ai", upbit |-> upbit, openai_client |-> openai_client]
    /\ UNCHANGED <<store, nextId, clock, analysed, ledger, running, flight, cli>>

\* a fallback that passes on a buy
ErrorDecisionBuy == [decision |-> "buy", confidence_level |-> 0]

\* the decision get_ai_decision returns without an answer of the model
ErrorDecision == [decision |-> "hold", confidence_level |-> 0]

\* get_ai_decision(data_for_ai); outcome is what the call of the model and
\* json.loads do
get_ai_decision(outcome) ==
    /\ bot.pc = "ai"
    /\ bot' = [pc |-> "trade", upbit |-> bot.upbit, openai_client |-> bot.openai_client,
               llm |-> IF ~bot.openai_client THEN "missing" ELSE outcome,
               result |-> IF ~bot.openai_client \/ outcome \in {"raises", "unparsable"}
                          THEN ErrorDecision
                          ELSE [decision |-> outcome, confidence_level |-> 80]]
    /\ UNCHANGED <<store, nextId, clock, analysed, ledger, running, flight, cli>>

\* the same test on the cash before the fee
CanBuyGross(my_krw) == my_krw > MinOrder

\* my_krw * 0.9995 > 5000
CanBuy(my_krw) == my_krw * NetOfFeeNum > MinOrder * NetOfFeeDen

\* my_btc * current_price > 5000
CanSell(my_btc, current_price) == my_btc * current_price > MinOrder

\* execute_trade(decision): the orders it has sent to the exchange; my_krw,
\* my_btc and ask_price are what the exchange reports
execute_trade(my_krw, my_btc, ask_price) ==
    /\ bot.pc = "trade"
    /\ LET decision == bot.result.decision
           orders == IF ~bot.upbit THEN <<>>
                     ELSE IF decision = "buy"
                          THEN (IF CanBuy(my_krw) THEN <<"buy">> ELSE <<>>)
                     ELSE IF decision = "sell"
                          THEN (IF CanSell(my_btc, ask_price) THEN <<"sell">> ELSE <<>>)
                     ELSE <<>>
       IN  bot' = [pc |-> "done", upbit |-> bot.upbit, llm |-> bot.llm,
                   result |-> bot.result, my_krw |-> my_krw, my_btc |-> my_btc,
                   ask_price |-> ask_price, orders |-> orders]
    /\ UNCHANGED <<store, nextId, clock, analysed, ledger, running, flight, cli>>

\* a frame that takes up the row written last while the run goes on
FrameWithLatest(read, table) ==
    IF Len(table) > Len(read) THEN read \o <<table[Len(table)]>> ELSE read

\* pd.read_sql_query(query, conn) followed by conn.close(): the frame holds
\* the rows the one SELECT returned, whatever the table holds later
Frame(read, table) == read

\* main() calls load_data(): the SELECT over the table
LoadTable ==
    /\ ~running
    /\ running' = TRUE
    /\ analysed' = store
    /\ UNCHANGED <<store, nextId, clock, ledger, flight, cli, bot>>

\* main() parses the timestamps of the frame and runs the pipeline over it
ComputeLedger ==
    /\ running
    /\ \E now \in {clock, clock + 1} :
            LET df == Frame(analysed, store)
            IN  ledger' = IF df = <<>> THEN <<>> ELSE Analyse(df, now)
    /\ running' = FALSE
    /\ UNCHANGED <<store, nextId, clock, analysed, flight, cli, bot>>

\* The cash-flow feed with the manual tools.
Next ==
    \/ \E btc \in BtcValues, krw \in KrwValues, avg \in StillAvgs, price \in StillPrices :
            RecordSnapshot(btc, krw, avg, price)
    \/ \E amount \in Amounts, date_str \in DateStrs : add_manual_deposit(amount, date_str)
    \/ \E amount \in Amounts, date_str \in DateStrs, confirm \in BOOLEAN :
            add_manual_withdraw(amount, date_str, confirm)
    \/ RunAnalysis

Spec == Init /\ [][Next]_vars

\* The market feed.
NextMarket ==
    \/ \E o \in MarketObservations, krw \in StillKrw :
            RecordSnapshot(o.btc, krw, o.avg, o.price)
    \/ RunAnalysis

SpecMarket == Init /\ [][NextMarket]_vars

\* The ledger feed with small manual deposits.
NextFlows ==
    \/ \E o \in FlowObservations, price \in StillPrices :
            RecordSnapshot(o.btc, o.krw, o.avg, price)
    \/ \E amount \in SmallAmounts : add_manual_deposit(amount, NoDate)
    \/ RunAnalysis

SpecFlows == Init /\ [][NextFlows]_vars

\* The manual tools of the repository over a feed of snapshots.
NextTools ==
    \/ \E btc \in ToolBtc, krw \in ToolKrw, avg \in StillAvgs, price \in StillPrices :
            RecordSnapshot(btc, krw, avg, price)
    \/ \E amount \in Amounts, date_str \in FormDates : add_manual_deposit(amount, date_str)
    \/ \E amount \in Amounts, date_str \in FormDates, confirm \in BOOLEAN :
            add_manual_withdraw(amount, date_str, confirm)
    \/ \E amount \in Amounts : add_deposit(amount)
    \/ \E amount \in Amounts : add_withdrawal(amount)
    \/ \E amount \in Amounts, date \in FormDates : DepositForm(amount, date)
    \/ \E amount \in Amounts, date \in FormDates : WithdrawForm(amount, date)
    \/ CliExit

SpecTools == Init /\ [][NextTools]_vars

\* The feed with the command-line deposit, read by the dashboard.
NextOrder ==
    \/ \E btc \in ToolBtc, krw \in KrwValues, avg \in StillAvgs, price \in StillPrices :
            RecordSnapshot(btc, krw, avg, price)
    \/ \E amount \in Amounts : add_deposit(amount)
    \/ CliExit
    \/ RunAnalysis

SpecOrder == Init /\ [][NextOrder]_vars

\* A dashboard run in two steps, with the writers going on between them.
NextRun ==
    \/ \E btc \in ToolBtc, krw \in ToolKrw, avg \in StillAvgs, price \in StillPrices :
            RecordSnapshot(btc, krw, avg, price)
    \/ \E amount \in Amounts : add_manual_deposit(amount, NoDate)
    \/ LoadTable
    \/ ComputeLedger

SpecRun == Init /\ [][NextRun]_vars

\* the amounts given on the command line
AdminAmounts == {1000, 2000}

\* Two operators at the manual deposit tool, over a table the trading loop
\* has filled before and does not write meanwhile.
RecordBefore ==
    /\ \A p \in Operators : flight[p] = Idle
    /\ \E btc \in ToolBtc, krw \in ToolKrw, avg \in StillAvgs, price \in StillPrices :
            RecordSnapshot(btc, krw, avg, price)

NextRace ==
    \/ RecordBefore
    \/ \E p \in Operators, amount \in AdminAmounts : BeginDeposit(p, amount)
    \/ \E p \in Operators : InsertDeposit(p)

SpecRace == Init /\ [][NextRace]_vars

\* The trading cycles of the bot.
NextBot ==
    \/ \E upbit \in BOOLEAN, openai_client \in BOOLEAN : StartCycle(upbit, openai_client)
    \/ \E outcome \in LlmOutcomes : get_ai_decision(outcome)
    \/ \E my_krw \in BotKrw, my_btc \in BotBtc, ask_price \in AskPrices :
            execute_trade(my_krw, my_btc, ask_price)

SpecBot == Init /\ [][NextBot]_vars

\* The administration of the table: every tool that writes it.
TradeIds == 1..MaxRows
NewTypes == {"fee", "bogus"}
NextAdmin ==
    \/ \E btc \in ToolBtc, krw \in ToolKrw, avg \in StillAvgs, price \in StillPrices :
            RecordSnapshot(btc, krw, avg, price)
    \/ \E amount \in Amounts : add_manual_deposit(amount, NoDate)
    \/ \E amount \in Amounts : add_manual_withdraw(amount, NoDate, TRUE)
    \/ \E amount \in AdminAmounts : add_deposit(amount)
    \/ \E amount \in AdminAmounts : add_withdrawal(amount)
    \/ \E trade_id \in TradeIds, force \in BOOLEAN, confirm \in BOOLEAN :
            delete_trade(trade_id, force, confirm)
    \/ \E trade_id \in TradeIds, new_type \in NewTypes : update_type(trade_id, new_type)
    \/ delete_manual_deposit_records
    \/ CliExit

SpecAdmin == Init /\ [][NextAdmin]_vars

----------------------------------------------------------------------------
(* Properties of the ledger *)

BaseDelta(i) == ledger[i].btc_balance - ledger[i-1].btc_balance
CashDelta(i) == ledger[i].krw_balance - ledger[i-1].krw_balance
\* the reasons the manual tools write
MarksDeposit(i) ==
    ledger[i].reason \in {DepositReason, CliDepositReason, FormDepositReason}
MarksWithdraw(i) ==
    ledger[i].reason \in {WithdrawReason, CliWithdrawalReason, FormWithdrawReason}
Unmarked(i) == ~MarksDeposit(i) /\ ~MarksWithdraw(i)
IsTradeSell(i) == ledger[i].cash_flow_type = "trade" /\ BaseDelta(i) < -TradeEps
IsTradeBuy(i) == ledger[i].cash_flow_type = "trade" /\ BaseDelta(i) > TradeEps
\* every snapshot of the ledger carries a usable price
Priced == \A i \in 1..Len(ledger) : ledger[i].btc_krw_price > 0

\* C1: a row without a manual marker is a deposit of cash_delta when the base
\* balance moved by less than epsilon and the cash rose by more than the
\* threshold, a withdrawal of |cash_delta| when the cash fell by more than the
\* threshold, and a trade row with no deposit or withdrawal amount otherwise.
C1_DeltaClassification ==
    \A i \in 2..Len(ledger) :
        Unmarked(i) =>
            IF Abs(BaseDelta(i)) < DetectEps /\ CashDelta(i) > CashThreshold
            THEN /\ ledger[i].cash_flow_type = "deposit"
                 /\ ledger[i].deposit_amount = CashDelta(i)
            ELSE IF Abs(BaseDelta(i)) < DetectEps /\ CashDelta(i) < -CashThreshold
            THEN /\ ledger[i].cash_flow_type = "withdraw"
                 /\ ledger[i].withdraw_amount = Abs(CashDelta(i))
            ELSE /\ ledger[i].cash_flow_type = "trade"
                 /\ ledger[i].deposit_amount = 0
                 /\ ledger[i].withdraw_amount = 0

\* A ledger with an inferred deposit and an inferred withdrawal.
C1_Witness ==
    /\ \E i \in 2..Len(ledger) :
            Unmarked(i) /\ ledger[i].cash_flow_type = "deposit" /\ ledger[i].deposit_amount > 0
    /\ \E i \in 2..Len(ledger) :
            Unmarked(i) /\ ledger[i].cash_flow_type = "withdraw" /\ ledger[i].withdraw_amount > 0

\* C2: with the epsilon of the buy / sell rule, a row without a manual marker
\* whose base balance rose by more than epsilon is booked as a buy, one whose
\* base balance fell by more than epsilon as a sell, and neither is ever
\* classified deposit or withdraw.
C2_OneEpsilon ==
    \A i \in 2..Len(ledger) :
        Unmarked(i) =>
            /\ BaseDelta(i) > TradeEps =>
                    ledger[i].buy_amount > 0 /\ ledger[i].sell_amount = 0
            /\ BaseDelta(i) < -TradeEps =>
                    ledger[i].sell_amount > 0 /\ ledger[i].buy_amount = 0
            /\ Abs(BaseDelta(i)) > TradeEps =>
                    ledger[i].cash_flow_type \notin {"deposit", "withdraw"}

\* C3: a row whose reason marks a manual deposit is a deposit and one whose
\* reason marks a manual withdrawal is a withdrawal, whatever the deltas; the
\* delta rule books nothing on it.
C3_ManualMarkerWins ==
    \A i \in 1..Len(ledger) :
        /\ MarksDeposit(i) =>
                /\ ledger[i].cash_flow_type = "deposit"
                /\ ledger[i].withdraw_amount = 0
        /\ MarksWithdraw(i) =>
                /\ ledger[i].cash_flow_type = "withdraw"
                /\ ledger[i].deposit_amount = 0
        /\ ~Unmarked(i) =>
                /\ ledger[i].buy_amount = 0
                /\ ledger[i].sell_amount = 0
                /\ ledger[i].trading_fee = 0

\* A manual deposit row whose base balance differs from its predecessor's and
\* whose cash is lower than its predecessor's.
C3_Witness ==
    \E i \in 2..Len(ledger) :
        /\ MarksDeposit(i)
        /\ Abs(BaseDelta(i)) > DetectEps
        /\ CashDelta(i) < 0
        /\ ledger[i].cash_flow_type = "deposit"

\* C7: two analysis runs over the same table content produce the same ledger.
C7_Idempotent ==
    [][(analysed = store /\ store' = store /\ store # <<>>) => ledger' = ledger]_vars

\* C8: over a prefix of trade rows only, cumulative_buy - cumulative_sell plus
\* the change of the cash balance since the first snapshot stays within the
\* cumulative fees.
C8_Conservation ==
    \A k \in 1..Len(ledger) :
        (\A j \in 1..k : ledger[j].cash_flow_type = "trade") =>
            Abs(ledger[k].cumulative_buy - ledger[k].cumulative_sell
                + ledger[k].krw_balance - ledger[1].krw_balance) * FeeRateDen
                <= ledger[k].cumulative_fees

\* C4: a row with a predecessor that is booked as a buy or a sell carries the
\* notional |base_delta| * its own btc_krw_price, and its trading_fee is the
\* notional * 0.0005.
C4_NotionalAndFee ==
    \A i \in 2..Len(ledger) :
        /\ IsTradeBuy(i) =>
                /\ ledger[i].buy_amount = Abs(BaseDelta(i)) * ledger[i].btc_krw_price
                /\ ledger[i].sell_amount = 0
                /\ ledger[i].trading_fee = ledger[i].buy_amount * FeeRateNum
        /\ IsTradeSell(i) =>
                /\ ledger[i].sell_amount = Abs(BaseDelta(i)) * ledger[i].btc_krw_price
                /\ ledger[i].buy_amount = 0
                /\ ledger[i].trading_fee = ledger[i].sell_amount * FeeRateNum

\* A buy and a sell, each at a price that differs from its predecessor's.
C4_Witness ==
    /\ \E i \in 2..Len(ledger) :
            /\ IsTradeBuy(i) /\ ledger[i].buy_amount > 0
            /\ ledger[i].btc_krw_price # ledger[i-1].btc_krw_price
            /\ ledger[i-1].btc_krw_price > 0
    /\ \E i \in 2..Len(ledger) :
            /\ IsTradeSell(i) /\ ledger[i].sell_amount > 0
            /\ ledger[i].btc_krw_price # ledger[i-1].btc_krw_price
            /\ ledger[i-1].btc_krw_price > 0

\* C5: on a sell, realized_profit rises over the previous entry's by
\* N - sold quantity * average cost before the sale - F, with N the notional
\* of this sell and F its fee (stated for ledgers whose prices are all
\* positive and for sells at which the reported average cost is the positive
\* one of the entry before).
C5_RealizedIncrement ==
    \A i \in 2..Len(ledger) :
        (/\ Priced
         /\ IsTradeSell(i)
         /\ ledger[i].btc_avg_buy_price > 0
         /\ ledger[i].btc_avg_buy_price = ledger[i-1].btc_avg_buy_price) =>
            RatEq(RatSub(ledger[i].realized_profit, ledger[i-1].realized_profit),
                  Rat(2 * FeeRateDen * (ledger[i].sell_amount
                        - Abs(BaseDelta(i)) * ledger[i-1].btc_avg_buy_price)
                        - 2 * ledger[i].trading_fee,
                      1))

\* C6: realized_profit of an entry that is not a sell equals the previous
\* entry's (stated for ledgers whose prices are all positive).
C6_RealizedCarried ==
    \A i \in 2..Len(ledger) :
        (Priced /\ ~IsTradeSell(i)) =>
            RatEq(ledger[i].realized_profit, ledger[i-1].realized_profit)

\* C9: cumulative_fees never decreases from one entry to the next.
C9_FeesMonotone ==
    \A i \in 2..Len(ledger) :
        ledger[i].cumulative_fees >= ledger[i-1].cumulative_fees

\* C10: the average cost used at a sell and at the entries after it, up to
\* the next buy, is the average cost of the entry before the sell (stated
\* for ledgers whose prices are all positive).
C10_SellKeepsAverageCost ==
    \A i \in 2..Len(ledger) :
        (Priced /\ IsTradeSell(i)) =>
            \A j \in i..Len(ledger) :
                (\A k \in i..j : ~IsTradeBuy(k)) =>
                    ledger[j].btc_avg_buy_price = ledger[i-1].btc_avg_buy_price

\* C11: an entry whose base balance is 0 has no unrealized profit, so its
\* total profit (performance) is its realized_profit; an entry holding a
\* positive base balance has the unrealized part
\* base_balance * (last_price - average_cost) (stated for ledgers whose
\* prices are all positive).
C11_ZeroHoldingNoUnrealized ==
    \A i \in 1..Len(ledger) :
      Priced =>
        LET total == Rat(2 * FeeRateDen * ledger[i].performance, 1)
            held == ledger[i].btc_balance
                        * (ledger[i].btc_krw_price - ledger[i].btc_avg_buy_price)
        IN
            IF ledger[i].btc_balance = 0
            THEN RatEq(total, ledger[i].realized_profit)
            ELSE ledger[i].btc_balance > 0 =>
                    RatEq(RatSub(total, ledger[i].realized_profit),
                          Rat(2 * FeeRateDen * held, 1))

\* C18: every row of the table has a cash balance and a base balance of at
\* least 0, whatever deposits and withdrawals the manual tools have recorded.
C18_BalancesStayNonNegative ==
    \A i \in 1..Len(store) :
        store[i].krw_balance >= 0 /\ store[i].btc_balance >= 0

\* C12: an entry classified deposit or withdraw has buy_amount, sell_amount
\* and trading_fee 0, leaves cumulative_buy, cumulative_sell and
\* cumulative_fees where the entry before had them, and carries the average
\* cost of the entry before.
C12_CashRowsBookNothing ==
    \A i \in 1..Len(ledger) :
        ledger[i].cash_flow_type \in {"deposit", "withdraw"} =>
            /\ ledger[i].buy_amount = 0
            /\ ledger[i].sell_amount = 0
            /\ ledger[i].trading_fee = 0
            /\ i > 1 =>
                /\ ledger[i].cumulative_buy = ledger[i-1].cumulative_buy
                /\ ledger[i].cumulative_sell = ledger[i-1].cumulative_sell
                /\ ledger[i].cumulative_fees = ledger[i-1].cumulative_fees
                /\ ledger[i].btc_avg_buy_price = ledger[i-1].btc_avg_buy_price

\* the notional of the buy event and of the sell event of entry i: the
\* opening holding of the first entry, |base_delta| * last_price of a later
\* trade entry
BuyNotional(i) ==
    IF i = 1
    THEN IF ledger[1].cash_flow_type = "trade" /\ ledger[1].btc_balance > 0
         THEN ledger[1].btc_balance * ledger[1].btc_krw_price ELSE 0
    ELSE IF IsTradeBuy(i) THEN BaseDelta(i) * ledger[i].btc_krw_price ELSE 0
SellNotional(i) ==
    IF i > 1 /\ IsTradeSell(i) THEN Abs(BaseDelta(i)) * ledger[i].btc_krw_price ELSE 0
RECURSIVE SumBuyNotionals(_)
SumBuyNotionals(k) == IF k = 0 THEN 0 ELSE SumBuyNotionals(k - 1) + BuyNotional(k)
RECURSIVE SumSellNotionals(_)
SumSellNotionals(k) == IF k = 0 THEN 0 ELSE SumSellNotionals(k - 1) + SellNotional(k)

\* C13: at every entry cumulative_buy is the sum of the notionals of the buy
\* events up to and including it, and cumulative_sell the sum of the
\* notionals of the sell events.
C13_CumulativeNotionals ==
    \A k \in 1..Len(ledger) :
        /\ ledger[k].cumulative_buy = SumBuyNotionals(k)
        /\ ledger[k].cumulative_sell = SumSellNotionals(k)

\* A flat first snapshot, a buy at the second entry whose notional is the
\* cumulative_buy there, and a sell at the third that leaves it unchanged.
C13_Witness ==
    /\ Len(ledger) = 3
    /\ ledger[1].btc_balance = 0
    /\ IsTradeBuy(2)
    /\ ledger[2].cumulative_buy = ledger[2].btc_balance * ledger[2].btc_krw_price
    /\ ledger[2].cumulative_buy > 0
    /\ IsTradeSell(3)
    /\ ledger[3].cumulative_sell > 0
    /\ ledger[3].cumulative_buy = ledger[2].cumulative_buy

\* the first entry is booked as a buy of its whole base balance at its own
\* price, with the fee on it, when it holds a positive base balance, and
\* books nothing when it holds none
OpeningBooked ==
    IF ledger[1].btc_balance > 0
    THEN /\ ledger[1].buy_amount = ledger[1].btc_balance * ledger[1].btc_krw_price
         /\ ledger[1].sell_amount = 0
         /\ ledger[1].trading_fee = ledger[1].buy_amount * FeeRateNum
    ELSE /\ ledger[1].buy_amount = 0
         /\ ledger[1].sell_amount = 0
         /\ ledger[1].trading_fee = 0

\* C14: the first snapshot of the sequence is booked as an opening buy of its
\* entire base balance at its own price whenever its base balance is
\* positive, and contributes nothing when it is 0.
C14_OpeningBuy == ledger # <<>> => OpeningBooked

\* every row of the table the run has read has an entry, and every entry a
\* classification
Classified ==
    /\ Len(ledger) = Len(analysed)
    /\ \A i \in 1..Len(ledger) :
            ledger[i].cash_flow_type \in {"trade", "deposit", "withdraw"}

\* an entry that books nothing
BooksNothing(i) ==
    /\ ledger[i].buy_amount = 0
    /\ ledger[i].sell_amount = 0
    /\ ledger[i].trading_fee = 0
    /\ ledger[i].deposit_amount = 0
    /\ ledger[i].withdraw_amount = 0

\* both deltas of the pair that ends at entry i are within noise
WithinNoise(i) ==
    Abs(BaseDelta(i)) <= TradeEps /\ Abs(CashDelta(i)) <= CashThreshold

\* C15: every row receives a classification, and a pair whose base delta is
\* within epsilon and whose cash delta is within the materiality threshold
\* contributes 0 to buy_amount, sell_amount, trading_fee, deposit_amount and
\* withdraw_amount.
C15_NoiseIsNoOp ==
    /\ Classified
    /\ \A i \in 2..Len(ledger) : WithinNoise(i) => BooksNothing(i)

\* C15, amended: every row receives a classification, and a pair whose reason
\* marks no manual deposit or withdrawal, whose base delta is within
\* 0.000001 and whose cash delta is within 1,000 stays a 'trade' row that
\* contributes 0 to the five amounts.
C15_UnmarkedNoiseIsNoOp ==
    /\ Classified
    /\ \A i \in 2..Len(ledger) :
            (Unmarked(i) /\ WithinNoise(i)) =>
                ledger[i].cash_flow_type = "trade" /\ BooksNothing(i)

\* An unmarked pair whose holding stood still and whose cash rose by exactly
\* the threshold.
C15_Witness ==
    \E i \in 2..Len(ledger) :
        /\ Unmarked(i)
        /\ BaseDelta(i) = 0
        /\ CashDelta(i) = CashThreshold
        /\ ledger[i].cash_flow_type = "trade"

\* entry i is a trade inferred from a snapshot whose price is not positive
UnpricedTrade(i) ==
    /\ ledger[i].btc_krw_price <= 0
    /\ ledger[i].cash_flow_type = "trade"
    /\ IF i = 1 THEN ledger[1].btc_balance > 0 ELSE Abs(BaseDelta(i)) > TradeEps

\* C16: a trade inferred from a snapshot whose price is 0 or negative adds
\* nothing to cumulative_buy, cumulative_sell and cumulative_fees, its entry
\* carries a warning column, and the snapshots after it have their entries.
C16_UnpricedExcluded ==
    /\ Len(ledger) = Len(analysed)
    /\ \A i \in 1..Len(ledger) :
            UnpricedTrade(i) =>
                /\ ledger[i].buy_amount = 0
                /\ ledger[i].sell_amount = 0
                /\ ledger[i].trading_fee = 0
                /\ "warning" \in DOMAIN ledger[i]

\* C17: return_rate is exactly 0 at an entry whose investment base is not
\* positive, and profit / investment base * 100 at an entry whose base is
\* positive.
C17_ReturnRateDefined ==
    \A i \in 1..Len(ledger) :
        IF ledger[i].investment > 0
        THEN ledger[i].return_rate.n * ledger[i].investment
                = ledger[i].performance * 100 * ledger[i].return_rate.d
        ELSE ledger[i].return_rate.n = 0 /\ ledger[i].return_rate.d = 1

\* A ledger with an entry whose investment base is negative and whose profit
\* is not 0, and an entry whose base is positive and whose profit is not 0.
C17_Witness ==
    /\ \E i \in 1..Len(ledger) :
            ledger[i].investment < 0 /\ ledger[i].performance # 0
    /\ \E i \in 1..Len(ledger) :
            ledger[i].investment > 0 /\ ledger[i].performance # 0
                /\ ledger[i].return_rate.n # 0

\* the table the last run has read holds a row with a negative balance
NegativeBalanceRead ==
    \E i \in 1..Len(analysed) :
        analysed[i].krw_balance < 0 \/ analysed[i].btc_balance < 0

\* C19: a run over a table that holds a row with a negative base or cash
\* balance stops and produces no ledger.
C19_NegativeBalanceStops == NegativeBalanceRead => ledger = <<>>

\* the row of the table the last run has read that entry i stands for
SourceRow(i) ==
    CHOOSE r \in {analysed[k] : k \in 1..Len(analysed)} : r.id = ledger[i].id

\* C20: a record whose timestamp cannot be parsed is left out of the ordered
\* sequence the ledger is computed over: no entry stands for such a record,
\* and every other record has its entry.
C20_MalformedExcluded ==
    /\ \A i \in 1..Len(ledger) : SourceRow(i).timestamp.kind # "bad"
    /\ Len(ledger) = Cardinality({k \in 1..Len(analysed) : analysed[k].timestamp.kind # "bad"})

\* C21: the rows of the ledger are in non-decreasing order of their instants,
\* rows of one instant in ascending order of their ids, whichever tool and
\* timestamp format wrote them.
C21_InstantOrder ==
    \A i \in 2..Len(ledger) :
        \/ ledger[i-1].timestamp.t < ledger[i].timestamp.t
        \/ /\ ledger[i-1].timestamp.t = ledger[i].timestamp.t
           /\ ledger[i-1].id < ledger[i].id

\* every row of the table is in the table after the step, with the values
\* it had
RowsKept == Len(store') >= Len(store) /\ SubSeq(store', 1, Len(store)) = store
\* the step is a delete_trade or update_type command, or a run of the
\* deletion script (the only other operation after which the table is
\* shorter)
CorrectionStep ==
    \/ cli = NoCommand /\ cli' # NoCommand /\ cli'.op \in {"delete_trade", "update_type"}
    \/ cli' = cli /\ Len(store') < Len(store)

\* C22: under every operation of the tools, a row once written stays in the
\* table with unchanged values.
C22_AppendOnly == [][RowsKept]_vars

\* C22, amended: under every operation other than delete_trade, update_type
\* and delete_manual_deposit_records, a row once written stays in the table
\* with unchanged values.
C22_AppendOnlyWriters == [][~CorrectionStep => RowsKept]_vars
C22_Witness ==
    /\ Len(store) = 3
    /\ store[1].reason = AiReason
    /\ \E k \in 2..3 : store[k].reason = CliDepositReason
    /\ \E k \in 2..3 : store[k].reason = DepositReason

\* the step is a call of the CLI's add_deposit or add_withdrawal
CashCommandStep ==
    cli = NoCommand /\ cli' # NoCommand /\ cli'.op \in {"add_deposit", "add_withdrawal"}
\* the row the command has appended, with the balances of the latest row
\* and its cash moved by the amount
AppendedFrom(latest, krw_balance) ==
    /\ Len(store') = Len(store) + 1
    /\ SubSeq(store', 1, Len(store)) = store
    /\ LET new == store'[Len(store')]
       IN  /\ new.btc_balance = latest.btc_balance
           /\ new.btc_avg_buy_price = latest.btc_avg_buy_price
           /\ new.btc_krw_price = latest.btc_krw_price
           /\ new.krw_balance = krw_balance

\* C29: add_withdrawal of more than the latest row's cash, and add_deposit
\* and add_withdrawal on an empty table, return False and insert nothing;
\* every other call returns True and appends one row with the latest row's
\* balances and prices and its cash plus or minus the amount.
C29_CashCommands ==
    [][CashCommandStep =>
        IF store = <<>>
        THEN cli'.result = FALSE /\ store' = store
        ELSE LET latest == LatestTrade(store)
             IN  IF cli'.op = "add_withdrawal" /\ cli'.arg > latest.krw_balance
                 THEN cli'.result = FALSE /\ store' = store
                 ELSE /\ cli'.result = TRUE
                      /\ AppendedFrom(latest,
                            IF cli'.op = "add_deposit"
                            THEN latest.krw_balance + cli'.arg
                            ELSE latest.krw_balance - cli'.arg)]_vars
C29_Witness ==
    /\ cli # NoCommand
    /\ cli.op = "add_withdrawal"
    /\ cli.result = FALSE
    /\ store # <<>>
    /\ cli.arg > LatestTrade(store).krw_balance

\* the step is a run of delete_manual_deposit_records that deleted rows
DeletionRun == cli' = cli /\ Len(store') < Len(store)

\* C30: delete_manual_deposit_records leaves no row written as a manual
\* deposit, and every other row (manual withdrawals and snapshots of the
\* trading loop included) in the table as it was.
C30_DeletesDepositsOnly ==
    [][DeletionRun =>
        store' = SelectSeq(store, LAMBDA row :
                    row.reason \notin {DepositReason, CliDepositReason, FormDepositReason})]_vars

\* the step is an analysis run over a table that has gained, since the run
\* before, exactly the row of one add_manual_deposit(amount, date_str)
RunAfterDeposit(amount) ==
    /\ analysed' = store /\ store' = store
    /\ analysed # <<>> /\ ledger # <<>>
    /\ Len(store) = Len(analysed) + 1
    /\ SubSeq(store, 1, Len(analysed)) = analysed
    /\ store[Len(store)].reason = DepositReason
    /\ store[Len(store)].krw_balance = LatestTrade(analysed).krw_balance + amount

\* C24: after add_manual_deposit(A, date_str), whatever date_str is, the
\* next analysis run ends with cumulative_deposits larger by A than the run
\* before the call, and with the same cumulative_withdraws.
C24_DepositAddsAmount ==
    [][\A amount \in Amounts :
        RunAfterDeposit(amount) =>
            /\ ledger'[Len(ledger')].cumulative_deposits
                    = ledger[Len(ledger)].cumulative_deposits + amount
            /\ ledger'[Len(ledger')].cumulative_withdraws
                    = ledger[Len(ledger)].cumulative_withdraws]_vars

\* C26: an entry classified deposit or withdraw, with the holding and the
\* price of the entry before it, has the performance of the entry before
\* it.
C26_CashMovesNoPerformance ==
    \A i \in 2..Len(ledger) :
        /\ ledger[i].cash_flow_type \in {"deposit", "withdraw"}
        /\ ledger[i].btc_balance = ledger[i-1].btc_balance
        /\ ledger[i].btc_krw_price = ledger[i-1].btc_krw_price
        => ledger[i].performance = ledger[i-1].performance

\* the ids of the rows of a table or of a ledger
IdsOf(rows) == {rows[k].id : k \in 1..Len(rows)}

\* C23: the rows an analysis run processes are the rows the table held at
\* one instant of the run, also when writers append rows while it runs.
\* The writers only append, so the table of such an instant is a prefix of
\* the table at the end of the run, no shorter than the table at its start.
C23_PointInTimeRead ==
    [][(running /\ ~running') =>
        \E n \in Len(analysed)..Len(store) :
            /\ Len(ledger') = n
            /\ IdsOf(ledger') = IdsOf(SubSeq(store, 1, n))]_vars
C23_Witness ==
    /\ running
    /\ analysed # <<>>
    /\ Len(store) >= Len(analysed) + 2

\* C25: when two manual deposits have run, one beside the other, over a
\* table nobody else writes, the latest row's cash is the cash of the latest
\* row before them plus the two amounts.
C25_NoLostDeposit ==
    (\A p \in Operators : flight[p].pc = "done") =>
        LatestTrade(store).krw_balance
            = LatestTrade(SubSeq(store, 1, Len(store) - 2)).krw_balance
                + flight["a"].amount + flight["b"].amount

\* C27: execute_trade places a buy order only on the decision 'buy' with
\* KRW balance x 0.9995 above 5000, a sell order only on the decision 'sell'
\* with BTC balance x ask price above 5000, no order on 'hold', on any other
\* decision and without an exchange client, and never more than one order.
C27_OrderConditions ==
    bot.pc = "done" =>
        /\ Len(bot.orders) <= 1
        /\ \A k \in 1..Len(bot.orders) :
            /\ bot.upbit
            /\ bot.orders[k] \in {"buy", "sell"}
            /\ bot.orders[k] = "buy" =>
                    /\ bot.result.decision = "buy"
                    /\ bot.my_krw * NetOfFeeNum > MinOrder * NetOfFeeDen
            /\ bot.orders[k] = "sell" =>
                    /\ bot.result.decision = "sell"
                    /\ bot.my_btc * bot.ask_price > MinOrder
C27_Witness ==
    /\ bot.pc = "done"
    /\ bot.result.decision = "buy"
    /\ bot.upbit
    /\ bot.my_krw = 5002
    /\ bot.orders = <<>>

\* C28: in a cycle without the LLM client, or in which the call of the
\* model or the parsing of its answer raises, the decision is 'hold' with
\* confidence 0.0 and no order is placed.
C28_FailureHolds ==
    /\ bot.pc \in {"trade", "done"} /\ bot.llm \in {"missing", "raises", "unparsable"}
        => bot.result.decision = "hold" /\ bot.result.confidence_level = 0
    /\ bot.pc = "done" /\ bot.llm \in {"missing", "raises", "unparsable"}
        => bot.orders = <<>>
C28_Witness ==
    /\ bot.pc = "done"
    /\ bot.llm = "unparsable"
    /\ bot.upbit
    /\ bot.my_krw = 5003

====
